---- MODULE Spec2Model ----
(***************************************************************************)
(* Solar flare prediction pipeline (src/app/pipeline.py) with its trigger  *)
(* endpoint (src/app/api.py) and settings (src/app/core.py).               *)
(*                                                                         *)
(* Time is counted in milliseconds (datetime, timedelta(hours=...)); the   *)
(* clock moves between any two of the readings a request makes.  A call to *)
(* the store and a reading of the clock are steps of their own: another    *)
(* request may act, and the clock may move, between the two.               *)
(* An X-ray flux is written as the number u of units of 1e-8 W/m^2 of its  *)
(* decimal literal and stands for the double nearest to u * 1e-8, so the   *)
(* thresholds 1e-4 and 1e-6 of predict are written 10000 and 100.  predict *)
(* computes on these doubles, with the rounding of binary64; its sum() is  *)
(* the interpreter's, which adds from the left or with compensation.       *)
(* The two tables live in Supabase (outside the repository): a table is a  *)
(* set of rows, and `timestamp` is its primary key.                        *)
(***************************************************************************)
EXTENDS Integers, Sequences, FiniteSets, TLC

(* ---------------- settings: src/app/core.py ---------------- *)
ML_LOOKBACK_HOURS == 24
DATA_RETRIEVAL_HOURS == 48
BUFFER_HOURS == 1

(* ---------------- timedelta(hours=1), in clock units ---------------- *)
HOUR == 3600000

(* ---------------- literals of src/app/pipeline.py ---------------- *)
XRAY_LONG == "0.1-0.8nm"
XRAY_SHORT == "0.05-0.4nm"
HIGH_THRESHOLD == 10000
MEDIUM_THRESHOLD == 100

(* ---------------- bounds of the model ---------------- *)
Now0 == 360000000
MaxTicks == 1
MaxFeedLen == 2
MaxInitRows == 1

(* Instants an observation can carry, placed around the three windows the  *)
(* pipeline computes at Now0: the retrieval bound Now0 - 48 h, the         *)
(* buffered start Now0 - 49 h and the model-input bound Now0 - 24 h.       *)
Stamps ==
    { Now0 - 50 * HOUR, Now0 - 49 * HOUR, Now0 - 24 * HOUR, Now0 - 23 * HOUR }
Fluxes ==
    { 50, 20000 }

\* fluxes on both sides of, and on, the two thresholds of predict
\* (0, 5e-8, 5e-7, 1e-6, 5e-5, 1e-4, 2e-4 W/m2)
RiskFluxes ==
    { 0, 5, 50, 100, 5000, 10000, 20000 }

AllProcs == {1, 2}

VARIABLES
    now,                \* the wall clock, datetime.now(timezone.utc)
    feed,               \* JSON array served by GOAS_19_XRAY_LONG
    summation,          \* what the runs have shown of the interpreter's sum()
    store,              \* table DATA_TABLE_NAME
    preds,              \* table PREDICTION_TABLE_NAME
    pc,                 \* position of each request in the pipeline
    latest_record,      \* local of run_prediction_pipeline (rows of the query)
    start_time,         \* local of run_prediction_pipeline
    lookback_start_time, \* local of run_prediction_pipeline
    response,           \* local of fetch_solar_data: how the request ended
    new_data,           \* local of run_prediction_pipeline
    fetched,            \* fetch_solar_data has returned new_data
    idx,                \* position of the loop of lines 95-96
    model_input_data,   \* local of run_prediction_pipeline
    queried,            \* the query of line 101 has returned
    prediction_result,  \* local of run_prediction_pipeline (0 or 1 record)
    exc,                \* exception that left run_prediction_pipeline
    exc_at,             \* step that raised it
    wroteObs,           \* this run has upserted into DATA_TABLE_NAME
    wrotePred,          \* this run has upserted into PREDICTION_TABLE_NAME
    http_status,        \* HTTP status the trigger endpoint last answered
    base,               \* history: DATA_TABLE_NAME when no request was in flight
    order,              \* history: requests since, in the order of line 81,
                        \* the clock reading of line 81 (seen) and the one
                        \* each took its start from (t)
    prev,               \* history: DATA_TABLE_NAME after the last clean run
    retry,              \* history: what the aborted run would have stored
    success_instants    \* history: clock readings of the runs that reached the end

vars ==
    << now, feed, summation, store, preds, pc, latest_record, start_time,
       lookback_start_time, response, new_data,
       fetched, idx, model_input_data, queried, prediction_result, exc,
       exc_at, wroteObs, wrotePred, http_status, base, order, prev, retry,
                    success_instants >>

locals ==
    << latest_record, start_time, lookback_start_time, response, new_data,
       fetched, idx, model_input_data,
       queried, prediction_result, exc, exc_at, wroteObs, wrotePred >>

(* ======================= data ======================= *)

FeedRecords ==
    [ energy : {XRAY_LONG},
      time_tag : { Now0 - 49 * HOUR, Now0 - 24 * HOUR, Now0 - 23 * HOUR },
      flux : {50} ]
      \cup { [ energy |-> XRAY_LONG, time_tag |-> Now0 - 23 * HOUR,
               flux |-> 20000 ] }
      \cup { [ energy |-> XRAY_SHORT, time_tag |-> Now0 - 23 * HOUR, flux |-> 50 ] }

RECURSIVE SeqsUpTo(_, _)
SeqsUpTo(S, n) ==
    IF n = 0 THEN { << >> }
    ELSE LET shorter == SeqsUpTo(S, n - 1)
         IN  shorter \cup { Append(s, x) : s \in shorter, x \in S }

Feeds ==
    SeqsUpTo(FeedRecords, MaxFeedLen)

ObservationRows ==
    [ timestamp : Stamps, xray_flux : Fluxes ]

UniqueTimestamps(tbl) ==
    \A r1 \in tbl : \A r2 \in tbl : r1.timestamp = r2.timestamp => r1 = r2

\* rows left by earlier runs
InitTables ==
    { tbl \in SUBSET [ timestamp : Stamps, xray_flux : {50} ] :
        Cardinality(tbl) <= MaxInitRows /\ UniqueTimestamps(tbl) }

(* ======================= the tables ======================= *)

\* mutant: .insert(record) on a table without the key, the row is added
UpsertInsert(tbl, rec) ==
    tbl \cup { rec }

\* .upsert(record).execute() with timestamp as primary key
Upsert(tbl, rec) ==
    { r \in tbl : r.timestamp # rec.timestamp } \cup { rec }

\* mutant: a colliding write is merged into the stored value (mean of the two)
UpsertAveraging(tbl, rec) ==
    { r \in tbl : r.timestamp # rec.timestamp }
      \cup { [ timestamp |-> rec.timestamp,
               xray_flux |-> (r.xray_flux + rec.xray_flux) \div 2 ] :
               r \in { q \in tbl : q.timestamp = rec.timestamp } }
      \cup { q \in {rec} : \A r \in tbl : r.timestamp # rec.timestamp }

\* line 96: db.table(DATA_TABLE_NAME).upsert(record).execute()
UpsertObservation(tbl, rec) ==
    Upsert(tbl, rec)

\* line 118: db.table(PREDICTION_TABLE_NAME).upsert(prediction_result).execute()
UpsertPrediction(tbl, rec) ==
    Upsert(tbl, rec)

\* .select("timestamp").order("timestamp", desc=True).limit(1).execute().data
LatestQuery(tbl) ==
    IF tbl = {} THEN << >>
    ELSE LET top == CHOOSE r \in tbl : \A q \in tbl : q.timestamp <= r.timestamp
         IN  << [ timestamp |-> top.timestamp ] >>

\* .select("*").gte("timestamp", t).execute().data, as a set of rows
RangeFrom(tbl, t) ==
    { r \in tbl : r.timestamp >= t }

\* the orders in which the rows of a query without ORDER BY can come back
Orderings(rows) ==
    { s \in [ 1 .. Cardinality(rows) -> rows ] :
        \A i \in DOMAIN s : \A j \in DOMAIN s : i # j => s[i] # s[j] }

(* ======================= fetch_solar_data ======================= *)

\* what requests.get / raise_for_status / response.json() can yield
HttpGet(f) ==
    { [ status |-> "ok", body |-> f ] }
      \cup { [ status |-> s, body |-> << >> ] :
               s \in { "network_error", "http_error", "invalid_json" } }

\* mutant: the except clause falls back to an empty result
FetchSwallows(r) ==
    "none"

\* The except clause only prints: `data` stays unbound and line 24 raises.
FetchRaises(r) ==
    IF r.status # "ok" THEN "UnboundLocalError" ELSE "none"

\* mutant: records of every channel are kept
FilterEnergyAll(data) ==
    data

\* line 24: energy == '0.1-0.8nm'
FilterEnergy(data) ==
    LET keep(record) == record.energy = XRAY_LONG
    IN  SelectSeq(data, keep)

\* line 25: start_time <= time_tag
FilterStart(data, start) ==
    LET keep(record) == start <= record.time_tag
    IN  SelectSeq(data, keep)

\* line 27: retain time_tag and flux only
CleanedData(data) ==
    [ i \in 1 .. Len(data) |->
        [ timestamp |-> data[i].time_tag, xray_flux |-> data[i].flux ] ]

\* lines 25 and 27 subscript record['time_tag'] and record['flux']: a record
\* of the channel without a time tag, or one kept by line 25 without a flux,
\* raises KeyError out of the comprehension
ParseRaises(data, start) ==
    LET by_energy == FilterEnergy(data)
    IN  IF \E i \in DOMAIN by_energy : "time_tag" \notin DOMAIN by_energy[i]
        THEN "KeyError"
        ELSE IF \E i \in DOMAIN FilterStart(by_energy, start) :
                  "flux" \notin DOMAIN FilterStart(by_energy, start)[i]
        THEN "KeyError"
        ELSE "none"

\* the exception that leaves fetch_solar_data, if any
FetchError(r, start) ==
    IF FetchRaises(r) # "none" THEN FetchRaises(r)
    ELSE ParseRaises(r.body, start)

FetchSolarData(data, start) ==
    CleanedData(FilterStart(FilterEnergy(data), start))

(* ======================= binary64 ======================= *)
(* The floats of predict are IEEE 754 doubles.  A double that is not zero  *)
(* is m * 2^e with 2^52 <= m < 2^53, and m is held as two digits in base   *)
(* 2^27, m = hi * 2^27 + lo.  Every operation rounds to nearest, ties to   *)
(* even, as the hardware does.  The fluxes of the model are not negative   *)
(* and stay far from overflow and from the subnormal range.                *)

Base ==
    2^27

\* the natural hi * 2^27 + lo with its low digit reduced
Wide(hi, lo) ==
    [ hi |-> hi + lo \div Base, lo |-> lo % Base ]

WAdd(a, b) ==
    Wide(a.hi + b.hi, a.lo + b.lo)

\* a - b for a >= b
WSub(a, b) ==
    IF a.lo >= b.lo THEN [ hi |-> a.hi - b.hi, lo |-> a.lo - b.lo ]
    ELSE [ hi |-> a.hi - b.hi - 1, lo |-> a.lo + Base - b.lo ]

WLess(a, b) ==
    a.hi < b.hi \/ (a.hi = b.hi /\ a.lo < b.lo)

WTwice(a) ==
    Wide(2 * a.hi, 2 * a.lo)

WHalf(a) ==
    [ hi |-> a.hi \div 2, lo |-> (a.lo + (a.hi % 2) * Base) \div 2 ]

WOdd(a) ==
    a.lo % 2 = 1

Zero ==
    [ m |-> [ hi |-> 0, lo |-> 0 ], e |-> 0 ]

IsZero(x) ==
    x.m.hi = 0 /\ x.m.lo = 0

\* The double nearest to (m + h/2 + s) * 2^e, for m >= 2^52, where half says
\* that h = 1 and sticky that 0 < s < 1/2.
RECURSIVE Round(_, _, _, _)
Round(m, half, sticky, e) ==
    IF m.hi >= 2^26 THEN Round(WHalf(m), WOdd(m), half \/ sticky, e + 1)
    ELSE IF half /\ (sticky \/ WOdd(m))
         THEN LET up == WAdd(m, [ hi |-> 0, lo |-> 1 ])
              IN  IF up.hi >= 2^26 THEN [ m |-> WHalf(up), e |-> e + 1 ]
                  ELSE [ m |-> up, e |-> e ]
         ELSE [ m |-> m, e |-> e ]

\* m < 2^56 divided by 2^k, 0 <= k <= 55: the quotient, whether the first
\* digit dropped is 1 (half) and whether a later one is (sticky)
ShiftRight(m, k) ==
    IF k = 0 THEN [ m |-> m, half |-> FALSE, sticky |-> FALSE ]
    ELSE IF k <= 27
         THEN [ m |-> [ hi |-> m.hi \div 2^k,
                        lo |-> m.lo \div 2^k + (m.hi % 2^k) * 2^(27 - k) ],
                half |-> (m.lo % 2^k) \div 2^(k - 1) = 1,
                sticky |-> m.lo % 2^(k - 1) # 0 ]
         ELSE [ m |-> Wide(0, m.hi \div 2^(k - 27)),
                half |-> (m.hi % 2^(k - 27)) \div 2^(k - 28) = 1,
                sticky |-> m.hi % 2^(k - 28) # 0 \/ m.lo # 0 ]

\* float + float
FAdd(a, b) ==
    IF IsZero(a) THEN b
    ELSE IF IsZero(b) THEN a
    ELSE LET big == IF a.e >= b.e THEN a ELSE b
             small == IF a.e >= b.e THEN b ELSE a
         IN  IF big.e - small.e >= 55 THEN big
             ELSE LET x == ShiftRight(small.m, big.e - small.e)
                  IN  Round(WAdd(big.m, x.m), x.half, x.sticky, big.e)

\* x = [m, e] with 0 < m < 2^56 as a double: brought to 2^52 <= m and rounded
RECURSIVE Normalise(_)
Normalise(x) ==
    IF x.m.hi >= 2^25 THEN Round(x.m, FALSE, FALSE, x.e)
    ELSE Normalise([ m |-> WTwice(x.m), e |-> x.e - 1 ])

\* an aligned significand, what the alignment dropped kept as a last digit 1
Jam(x) ==
    IF (x.half \/ x.sticky) /\ ~ WOdd(x.m)
    THEN WAdd(x.m, [ hi |-> 0, lo |-> 1 ])
    ELSE x.m

\* the double nearest to diff * 2^e, for 0 <= diff < 2^56
Difference(diff, e) ==
    IF diff.hi = 0 /\ diff.lo = 0 THEN Zero
    ELSE Normalise([ m |-> diff, e |-> e ])

\* a - b for floats a >= b >= 0.  Both significands get three more digits.
FSub(a, b) ==
    IF IsZero(b) THEN a
    ELSE Difference(
             WSub(Wide(8 * a.m.hi, 8 * a.m.lo),
                  IF a.e - b.e >= 56 THEN [ hi |-> 0, lo |-> 1 ]
                  ELSE Jam(ShiftRight(Wide(8 * b.m.hi, 8 * b.m.lo),
                                      a.e - b.e))),
             a.e - 3)

\* k more binary digits of a division by d, from x = [q, r], the quotient
\* and the remainder r < d so far
RECURSIVE DivBits(_, _, _)
DivBits(x, d, k) ==
    IF WLess(WTwice(x.r), d)
    THEN IF k = 1 THEN [ q |-> WTwice(x.q), r |-> WTwice(x.r) ]
         ELSE DivBits([ q |-> WTwice(x.q), r |-> WTwice(x.r) ], d, k - 1)
    ELSE LET y == [ q |-> WAdd(WTwice(x.q), [ hi |-> 0, lo |-> 1 ]),
                    r |-> WSub(WTwice(x.r), d) ]
         IN  IF k = 1 THEN y ELSE DivBits(y, d, k - 1)

\* float / float, for b that is not zero
FDiv(a, b) ==
    IF IsZero(a) THEN Zero
    ELSE LET first == IF WLess(a.m, b.m)
                      THEN [ q |-> [ hi |-> 0, lo |-> 0 ], r |-> a.m ]
                      ELSE [ q |-> [ hi |-> 0, lo |-> 1 ],
                             r |-> WSub(a.m, b.m) ]
             x == DivBits(first, b.m, 54)
         IN  Round(x.q, FALSE, x.r.hi # 0 \/ x.r.lo # 0, a.e - b.e - 54)

\* float(n) for an int 0 <= n < 2^31
FromInt(n) ==
    IF n = 0 THEN Zero ELSE Normalise([ m |-> Wide(0, n), e |-> 0 ])

\* a > b for floats that are not negative
FGreater(a, b) ==
    IF IsZero(a) THEN FALSE
    ELSE IF IsZero(b) THEN TRUE
    ELSE a.e > b.e \/ (a.e = b.e /\ WLess(b.m, a.m))

\* a float of either sign: abs is its magnitude, and zero is not negative
Signed(neg, x) ==
    [ neg |-> neg /\ ~ IsZero(x), abs |-> x ]

\* float + float for floats of either sign
SAdd(a, b) ==
    IF a.neg = b.neg THEN Signed(a.neg, FAdd(a.abs, b.abs))
    ELSE IF FGreater(b.abs, a.abs) THEN Signed(b.neg, FSub(b.abs, a.abs))
    ELSE Signed(a.neg, FSub(a.abs, b.abs))

\* The double a decimal literal of u units of 1e-8 denotes (5000 for 5e-05):
\* the double nearest to u / 10^8.
Decimal(u) ==
    FDiv(FromInt(u), FromInt(10^8))

\* the doubles of the fluxes and thresholds of the model, computed once
DoubleOf ==
    [ u \in Fluxes \cup RiskFluxes \cup { 10, 1000, 10001 } |-> Decimal(u) ]

\* the double of u, from those computed once when it is one of them
DoubleFrom(known, u) ==
    IF u \in DOMAIN known THEN known[u] ELSE Decimal(u)

\* the flux a row holds: JSON, float and float8 keep the double
Double(u) ==
    DoubleFrom(DoubleOf, u)

(* ======================= predict ======================= *)

\* the fluxes of the rows of a window, in their order
FluxesOf(data) ==
    [ i \in DOMAIN data |-> data[i].xray_flux ]

\* sum([...]) of line 42 is the interpreter's built-in.  The source names no
\* interpreter, and the builds it runs on add floats in two ways: from the
\* left with one rounding per addition (CPython up to 3.11), or from the
\* left with the rounding errors collected and added at the end (Neumaier's
\* compensated summation, CPython from 3.12).
Summations ==
    { "left", "compensated" }

\* sum([...]) of line 42 from the left, starting at 0
RECURSIVE SumLeft(_)
SumLeft(fs) ==
    IF fs = << >> THEN Zero
    ELSE FAdd(SumLeft(SubSeq(fs, 1, Len(fs) - 1)), Double(fs[Len(fs)]))

\* the larger and the smaller of two floats that are not negative
Larger(a, b) ==
    IF FGreater(b, a) THEN b ELSE a

Smaller(a, b) ==
    IF FGreater(b, a) THEN a ELSE b

\* what t = big + small lost of small, for big >= small: (big - t) + small
Lost(big, small, t) ==
    SAdd(SAdd(Signed(FALSE, big), Signed(TRUE, t)), Signed(FALSE, small))

\* one turn of the compensated loop, t being f + x: what t lost goes to the
\* compensation c
Compensate(s, x, t) ==
    [ f |-> t, c |-> SAdd(s.c, Lost(Larger(s.f, x), Smaller(s.f, x), t)) ]

CompensatedStep(s, x) ==
    Compensate(s, x, FAdd(s.f, x))

RECURSIVE CompensatedLoop(_, _, _)
CompensatedLoop(s, fs, i) ==
    IF i > Len(fs) THEN s
    ELSE CompensatedLoop(CompensatedStep(s, Double(fs[i])), fs, i + 1)

\* the end of the loop: the compensation is added when it is not zero
Compensated(s) ==
    IF IsZero(s.c.abs) THEN s.f
    ELSE SAdd(Signed(FALSE, s.f), s.c).abs

\* sum([...]) of line 42 with compensation: 0 + the first float, then the
\* loop over the others
SumCompensated(fs) ==
    IF fs = << >> THEN Zero
    ELSE Compensated(CompensatedLoop([ f |-> Double(fs[1]),
                                       c |-> Signed(FALSE, Zero) ], fs, 2))

Sum(how, fs) ==
    IF how = "left" THEN SumLeft(fs) ELSE SumCompensated(fs)

\* sum([...]) / len(data) of line 42, for fluxes fs that are not empty
Mean(how, fs) ==
    FDiv(Sum(how, fs), FromInt(Len(fs)))

\* flux_prediction / data[-1]['xray_flux'] of line 52, for the mean of fs
Ratio(mean, fs) ==
    IF fs[Len(fs)] > 0 THEN FDiv(mean, Double(fs[Len(fs)])) ELSE Zero

\* flux_prediction and m_class_probability given the mean
WithRatio(mean, fs) ==
    [ mean |-> mean, ratio |-> Ratio(mean, fs) ]

\* the two quotients of lines 42 and 52, for fluxes fs that are not empty
Quotients(how, fs) ==
    WithRatio(Mean(how, fs), fs)

\* the two quotients for the windows the model scores, computed once
Computed ==
    [ how \in Summations |->
        [ fs \in (SeqsUpTo(Fluxes \cup RiskFluxes, 2)
                    \cup SeqsUpTo({ 50, 5000, 10000, 20000 }, 4)
                    \cup SeqsUpTo({ 10001 }, 5)) \ { << >> } |->
            Quotients(how, fs) ] ]

\* the two quotients, from those computed once when fs is one of them
QuotientsFrom(known, how, fs) ==
    IF fs \in DOMAIN known[how] THEN known[how][fs] ELSE Quotients(how, fs)

\* what predict computes on a window that is not empty
Scored(how, data) ==
    QuotientsFrom(Computed, how, FluxesOf(data))

\* line 42
FluxPrediction(how, data) ==
    IF data # << >> THEN Scored(how, data).mean ELSE Zero

\* mutant: both thresholds one decade lower (1e-5 and 1e-7)
RiskLevelShifted(fp) ==
    IF FGreater(fp, Double(1000)) THEN "High"
    ELSE IF FGreater(fp, Double(10)) THEN "Medium"
    ELSE "Low"

\* lines 44-49
RiskLevel(fp) ==
    IF FGreater(fp, Double(HIGH_THRESHOLD)) THEN "High"
    ELSE IF FGreater(fp, Double(MEDIUM_THRESHOLD)) THEN "Medium"
    ELSE "Low"

\* line 52
MClassProbability(how, data) ==
    IF data # << >> THEN Scored(how, data).ratio ELSE Zero

\* lines 42-58 on an interpreter whose sum() adds as how says
Predict(how, data, t) ==
    [ timestamp |-> t,
      m_class_probability |-> MClassProbability(how, data),
      risk_level |-> RiskLevel(FluxPrediction(how, data)),
      model_version |-> "N/A" ]

(* ======================= run_prediction_pipeline ======================= *)

\* line 81: the latest observation is older than the retrieval bound at the
\* clock reading t
IsStale(date_obj, t) ==
    date_obj < t - DATA_RETRIEVAL_HOURS * HOUR

\* mutant: the stored latest timestamp is used however old it is
ClampedStartStale(date_obj, t) ==
    date_obj

\* line 82: inside the branch line 81 chose, the start is taken from the
\* clock reading t, whatever date_obj is
ClampedStart(date_obj, t) ==
    t - DATA_RETRIEVAL_HOURS * HOUR

\* line 85: `start_time -= timedelta(hours=settings.BUFFER_HOURS)`
Buffered(start) ==
    start - BUFFER_HOURS * HOUR

\* lines 81-85 of a run whose two readings of the clock both give t
StartTime(date_obj, t) ==
    Buffered(IF IsStale(date_obj, t) THEN ClampedStart(date_obj, t)
             ELSE date_obj)

\* mutant: the early return of lines 89-91 is missing
NoNewDataNever(d) ==
    FALSE

\* line 89: `if not new_data`
NoNewData(d) ==
    d = << >>

\* mutant: the early return of lines 104-106 is missing
NoModelInputNever(d) ==
    FALSE

\* line 104: `if not model_input_data`
NoModelInput(d) ==
    d = << >>

\* the loop of lines 95-96 is over when every record has been upserted
AfterUpsert(d, i) ==
    IF i > Len(d) THEN "window" ELSE "persist"

\* mutant: the loop of lines 95-96 logs a failed upsert and goes on
StoreErrorIgnored(step) ==
    IF step = "persist" THEN "window" ELSE "done"

\* No try/except in run_prediction_pipeline: an exception of a db call
\* leaves the function at the call.
StoreErrorPc(step) ==
    "done"

\* lines 95-96 from the first record on, as one function of the table
RECURSIVE UpsertAll(_, _)
UpsertAll(tbl, d) ==
    IF d = << >> THEN tbl
    ELSE UpsertAll(UpsertObservation(tbl, d[1]), Tail(d))

\* DATA_TABLE_NAME after one run alone on tbl that takes its start from the
\* clock reading t (lines 77-97)
RunObservations(tbl, f, t) ==
    IF LatestQuery(tbl) = << >> THEN tbl
    ELSE LET start == StartTime(LatestQuery(tbl)[1].timestamp, t)
         IN  IF ParseRaises(f, start) # "none" THEN tbl
             ELSE UpsertAll(tbl, FetchSolarData(f, start))

\* runs one after the other, at the clock readings ts
RECURSIVE RunsInSequence(_, _, _)
RunsInSequence(tbl, f, ts) ==
    IF ts = << >> THEN tbl
    ELSE RunsInSequence(RunObservations(tbl, f, ts[1]), f, Tail(ts))

(* ======================= trigger endpoint ======================= *)

\* mutant: the endpoint answers 202 whether or not the run raised
HttpStatusAccepted(e) ==
    202

\* api.py: status_code=202 on return; an exception leaving the handler is
\* answered 500 by FastAPI
HttpStatus(e) ==
    IF e = "none" THEN 202 ELSE 500

(* ======================= read endpoints ======================= *)

\* .select("*").order("timestamp", desc=True).limit(1).execute().data
LatestRow(tbl) ==
    IF tbl = {} THEN << >>
    ELSE << CHOOSE r \in tbl : \A q \in tbl : q.timestamp <= r.timestamp >>

\* models.py 9-12: PredictionRecord(**row); model_version has a default
ValidPredictionRecord(row) ==
    /\ { "timestamp", "m_class_probability", "risk_level" } \subseteq DOMAIN row
    /\ ~ FGreater(row.m_class_probability, FromInt(1))

\* models.py 18-19: ObservationRecord(**row)
ValidObservationRecord(row) ==
    { "timestamp", "magnetic_flux" } \subseteq DOMAIN row

\* api.py 26-34: the status of GET /predictions/latest
GetLatestPrediction(tbl) ==
    IF LatestRow(tbl) = << >> THEN 404
    ELSE IF ValidPredictionRecord(LatestRow(tbl)[1]) THEN 200
    ELSE 500

\* api.py 52-60: the status of GET /data/latest
GetLatestObservation(tbl) ==
    IF LatestRow(tbl) = << >> THEN 404
    ELSE IF ValidObservationRecord(LatestRow(tbl)[1]) THEN 200
    ELSE 500

(* ======================= state machine ======================= *)

NoLocals ==
    /\ latest_record = [ p \in AllProcs |-> << >> ]
    /\ start_time = [ p \in AllProcs |-> 0 ]
    /\ lookback_start_time = [ p \in AllProcs |-> 0 ]
    /\ response = [ p \in AllProcs |-> "none" ]
    /\ new_data = [ p \in AllProcs |-> << >> ]
    /\ fetched = [ p \in AllProcs |-> FALSE ]
    /\ idx = [ p \in AllProcs |-> 0 ]
    /\ model_input_data = [ p \in AllProcs |-> << >> ]
    /\ queried = [ p \in AllProcs |-> FALSE ]
    /\ prediction_result = [ p \in AllProcs |-> << >> ]
    /\ exc = [ p \in AllProcs |-> "none" ]
    /\ exc_at = [ p \in AllProcs |-> "none" ]
    /\ wroteObs = [ p \in AllProcs |-> FALSE ]
    /\ wrotePred = [ p \in AllProcs |-> FALSE ]

\* The last run was not aborted after writing observations, or the clock
\* has moved since.  (A run aborted before its first write leaves the
\* tables it started on: the run after it is the uninterrupted run itself.)
NoRetry ==
    [ armed |-> FALSE, want |-> {} ]

Init ==
    /\ now = Now0
    /\ feed \in Feeds
    /\ summation = "unseen"
    /\ store \in InitTables
    /\ preds = {}
    /\ pc = [ p \in AllProcs |-> "idle" ]
    /\ NoLocals
    /\ http_status = [ p \in AllProcs |-> 0 ]
    /\ base = store
    /\ order = << >>
    /\ prev = [ valid |-> FALSE, obs |-> {} ]
    /\ retry = NoRetry
    /\ success_instants = {}

\* api.py 82-93: the request enters run_prediction_pipeline
Trigger(p) ==
    /\ pc[p] = "idle"
    /\ pc' = [ pc EXCEPT ![p] = "determine" ]
    /\ http_status' = [ http_status EXCEPT ![p] = 0 ]
    /\ UNCHANGED << now, feed, summation, store, preds, locals, base, order, prev, retry,
                    success_instants >>

Raise(p, e) ==
    /\ exc' = [ exc EXCEPT ![p] = e ]
    /\ exc_at' = [ exc_at EXCEPT ![p] = pc[p] ]

\* pipeline.py 77-79: the query for the latest timestamp has answered
DetermineWindow(p) ==
    /\ pc[p] = "determine"
    /\ latest_record' = [ latest_record EXCEPT ![p] = LatestQuery(store) ]
    /\ IF latest_record'[p] = << >>
       THEN \* line 78: data[0] of an empty list
            /\ Raise(p, "IndexError")
            /\ pc' = [ pc EXCEPT ![p] = "done" ]
       ELSE /\ pc' = [ pc EXCEPT ![p] = "stale" ]
            /\ UNCHANGED << exc, exc_at >>
    /\ UNCHANGED << now, feed, summation, store, preds, start_time,
                    lookback_start_time, response, new_data, fetched, idx,
                    model_input_data, queried, prediction_result, wroteObs,
                    wrotePred, http_status, base, order, prev, retry,
                    success_instants >>

\* pipeline.py 81 and, when the latest observation is recent, 83-85: the
\* clock is read after the query has answered
CheckStale(p) ==
    /\ pc[p] = "stale"
    /\ order' = Append(order, [ proc |-> p, t |-> now, seen |-> now ])
    /\ IF IsStale(latest_record[p][1].timestamp, now)
       THEN \* line 82 reads the clock again
            /\ pc' = [ pc EXCEPT ![p] = "clamp" ]
            /\ UNCHANGED start_time
       ELSE \* lines 84 and 85
            /\ start_time' = [ start_time EXCEPT ![p] =
                  Buffered(latest_record[p][1].timestamp) ]
            /\ pc' = [ pc EXCEPT ![p] = "fetch" ]
    /\ UNCHANGED << now, feed, summation, store, preds, latest_record,
                    lookback_start_time, response, new_data, fetched, idx,
                    model_input_data, queried, prediction_result, exc, exc_at,
                    wroteObs, wrotePred, http_status, base, prev, retry,
                    success_instants >>

\* pipeline.py 82 and 85: the start is taken from a second clock reading,
\* with no second look at the latest timestamp
ClampWindow(p) ==
    /\ pc[p] = "clamp"
    /\ start_time' = [ start_time EXCEPT ![p] =
                         Buffered(ClampedStart(latest_record[p][1].timestamp,
                                               now)) ]
    /\ order' = [ i \in DOMAIN order |->
                    IF order[i].proc = p
                    THEN [ proc |-> p, t |-> now, seen |-> order[i].seen ]
                    ELSE order[i] ]
    /\ pc' = [ pc EXCEPT ![p] = "fetch" ]
    /\ UNCHANGED << now, feed, summation, store, preds, latest_record,
                    lookback_start_time, response, new_data,
                    fetched, idx, model_input_data, queried,
                    prediction_result, exc, exc_at, wroteObs, wrotePred,
                    http_status, base, prev, retry, success_instants >>

\* pipeline.py 88-92 with fetch_solar_data (16-28), answered by r
Fetch(p, r) ==
    /\ pc[p] = "fetch"
    /\ response' = [ response EXCEPT ![p] = r.status ]
    /\ IF FetchError(r, start_time[p]) # "none"
       THEN /\ Raise(p, FetchError(r, start_time[p]))
            /\ pc' = [ pc EXCEPT ![p] = "done" ]
            /\ UNCHANGED << new_data, fetched, idx >>
       ELSE /\ new_data' = [ new_data EXCEPT ![p] =
                               FetchSolarData(r.body, start_time[p]) ]
            /\ fetched' = [ fetched EXCEPT ![p] = TRUE ]
            /\ idx' = [ idx EXCEPT ![p] = 1 ]
            /\ pc' = [ pc EXCEPT ![p] =
                         IF NoNewData(new_data'[p]) THEN "done"
                         ELSE AfterUpsert(new_data'[p], 1) ]
            /\ UNCHANGED << exc, exc_at >>
    /\ UNCHANGED << now, feed, summation, store, preds, latest_record, start_time,
                    lookback_start_time,
                    model_input_data, queried, prediction_result, wroteObs,
                    wrotePred, http_status, base, order, prev, retry,
                    success_instants >>

FetchNew(p) ==
    \E r \in HttpGet(feed) : Fetch(p, r)

\* the feed answers 200 with its JSON array
FetchNewOk(p) ==
    Fetch(p, [ status |-> "ok", body |-> feed ])

\* pipeline.py 95-96: one turn of the loop
PersistOne(p) ==
    /\ pc[p] = "persist"
    /\ idx[p] <= Len(new_data[p])
    /\ store' = UpsertObservation(store, new_data[p][idx[p]])
    /\ wroteObs' = [ wroteObs EXCEPT ![p] = TRUE ]
    /\ idx' = [ idx EXCEPT ![p] = idx[p] + 1 ]
    /\ pc' = [ pc EXCEPT ![p] = AfterUpsert(new_data[p], idx[p] + 1) ]
    /\ UNCHANGED << now, feed, summation, preds, latest_record, start_time,
                    lookback_start_time, response,
                    new_data,
                    fetched, model_input_data, queried, prediction_result,
                    exc, exc_at, wrotePred, http_status, base, order, prev, retry,
                    success_instants >>

\* pipeline.py 100: the start of the model window, from the clock
LookbackStart(p) ==
    /\ pc[p] = "window"
    /\ lookback_start_time' = [ lookback_start_time EXCEPT ![p] =
                                  now - ML_LOOKBACK_HOURS * HOUR ]
    /\ pc' = [ pc EXCEPT ![p] = "select" ]
    /\ UNCHANGED << now, feed, summation, store, preds, latest_record,
                    start_time, response, new_data, fetched, idx,
                    model_input_data, queried, prediction_result, exc, exc_at,
                    wroteObs, wrotePred, http_status, base, order, prev,
                    retry, success_instants >>

\* pipeline.py 101-106: the range query has answered
LoadModelWindow(p) ==
    /\ pc[p] = "select"
    /\ \E rows \in Orderings(RangeFrom(store, lookback_start_time[p])) :
         /\ model_input_data' = [ model_input_data EXCEPT ![p] = rows ]
         /\ pc' = [ pc EXCEPT ![p] =
                      IF NoModelInput(rows) THEN "done" ELSE "score" ]
    /\ queried' = [ queried EXCEPT ![p] = TRUE ]
    /\ UNCHANGED << now, feed, summation, store, preds, latest_record,
                    start_time, lookback_start_time, response, new_data,
                    fetched, idx, prediction_result, exc, exc_at,
                    wroteObs, wrotePred, http_status, base, order, prev, retry,
                    success_instants >>

\* what sum() may be in this behaviour: either build until a run has summed
\* a window on which the two differ, that build from then on
Interpreters ==
    IF summation = "unseen" THEN Summations ELSE { summation }

\* the two builds give predict the same mean and the same ratio on data
SameOnBoth(data) ==
    Scored("left", data) = Scored("compensated", data)

\* pipeline.py 110-114 with predict (42-58)
Score(p) ==
    /\ pc[p] = "score"
    /\ \E how \in Interpreters :
         /\ prediction_result' = [ prediction_result EXCEPT ![p] =
                                     << Predict(how, model_input_data[p], now) >> ]
         /\ summation' = IF SameOnBoth(model_input_data[p]) THEN summation
                         ELSE how
    /\ pc' = [ pc EXCEPT ![p] = "write" ]
    /\ UNCHANGED << now, feed, store, preds, latest_record, start_time,
                    lookback_start_time, response, new_data, fetched, idx,
                    model_input_data, queried, exc, exc_at, wroteObs,
                    wrotePred, http_status, base, order, prev, retry,
                    success_instants >>

\* pipeline.py 118-121
WritePrediction(p) ==
    /\ pc[p] = "write"
    /\ preds' = UpsertPrediction(preds, prediction_result[p][1])
    /\ wrotePred' = [ wrotePred EXCEPT ![p] = TRUE ]
    /\ pc' = [ pc EXCEPT ![p] = "done" ]
    /\ success_instants' =
         success_instants \cup { prediction_result[p][1].timestamp }
    /\ UNCHANGED << now, feed, summation, store, latest_record, start_time,
                    lookback_start_time, response,
                    new_data,
                    fetched, idx, model_input_data, queried,
                    prediction_result, exc, exc_at, wroteObs, http_status,
                    base, order, prev, retry >>

\* a db call (lines 77, 96, 101, 118) raises: connectivity, auth, constraint
StoreFail(p) ==
    /\ pc[p] \in { "determine", "persist", "select", "write" }
    /\ Raise(p, "StoreError")
    /\ pc' = [ pc EXCEPT ![p] = StoreErrorPc(pc[p]) ]
    /\ UNCHANGED << now, feed, summation, store, preds, latest_record, start_time,
                    lookback_start_time,
                    response, new_data, fetched, idx, model_input_data, queried,
                    prediction_result, wroteObs, wrotePred, http_status,
                    base, order, prev, retry,
                    success_instants >>

\* api.py 93-99: run_prediction_pipeline is over and the request is answered;
\* r is the note taken of an aborted run
ReturnNoting(p, r) ==
    /\ pc[p] = "done"
    /\ pc' = [ pc EXCEPT ![p] = "idle" ]
    /\ http_status' = [ http_status EXCEPT ![p] = HttpStatus(exc[p]) ]
    /\ prev' = [ valid |-> exc[p] = "none",
                 obs |-> IF exc[p] = "none" THEN store ELSE {} ]
    /\ latest_record' = [ latest_record EXCEPT ![p] = << >> ]
    /\ start_time' = [ start_time EXCEPT ![p] = 0 ]
    /\ lookback_start_time' = [ lookback_start_time EXCEPT ![p] = 0 ]
    /\ response' = [ response EXCEPT ![p] = "none" ]
    /\ new_data' = [ new_data EXCEPT ![p] = << >> ]
    /\ fetched' = [ fetched EXCEPT ![p] = FALSE ]
    /\ idx' = [ idx EXCEPT ![p] = 0 ]
    /\ model_input_data' = [ model_input_data EXCEPT ![p] = << >> ]
    /\ queried' = [ queried EXCEPT ![p] = FALSE ]
    /\ prediction_result' = [ prediction_result EXCEPT ![p] = << >> ]
    /\ exc' = [ exc EXCEPT ![p] = "none" ]
    /\ exc_at' = [ exc_at EXCEPT ![p] = "none" ]
    /\ wroteObs' = [ wroteObs EXCEPT ![p] = FALSE ]
    /\ wrotePred' = [ wrotePred EXCEPT ![p] = FALSE ]
    /\ IF \A q \in AllProcs \ {p} : pc[q] = "idle"
       THEN base' = store /\ order' = << >>
       ELSE UNCHANGED << base, order >>
    /\ retry' = r
    /\ UNCHANGED << now, feed, summation, store, preds, success_instants >>

Return(p) ==
    ReturnNoting(p, NoRetry)

\* the same, remembering what a run aborted after its first write was to
\* store, until the next run is over
ReturnRetry(p) ==
    ReturnNoting(p, IF exc[p] # "none" /\ wroteObs[p] /\ ~ retry.armed
                    THEN [ armed |-> TRUE,
                           want |-> RunObservations(base, feed,
                                                   order[Len(order)].t) ]
                    ELSE NoRetry)

\* the steps that begin with datetime.now(): lines 81, 82, 100 and, in
\* predict, 55
ReadPoints ==
    { "stale", "clamp", "window", "score" }

\* The clock moves on by one unit.  A move is seen at the next reading only,
\* so the clock is moved when a request is about to read it: time that
\* passes between two requests is seen at line 81 of the second.
Tick ==
    /\ \E p \in AllProcs : pc[p] \in ReadPoints
    /\ now < Now0 + MaxTicks
    /\ now' = now + 1
    /\ retry' = NoRetry
    /\ UNCHANGED << feed, summation, store, preds, pc, locals, http_status, base,
                    order, prev,
                    success_instants >>

\* one request at a time
Next ==
    \/ Trigger(1)
    \/ DetermineWindow(1)
    \/ CheckStale(1)
    \/ ClampWindow(1)
    \/ FetchNew(1)
    \/ PersistOne(1)
    \/ LookbackStart(1)
    \/ LoadModelWindow(1)
    \/ Score(1)
    \/ WritePrediction(1)
    \/ StoreFail(1)
    \/ Return(1)
    \/ Tick

Spec ==
    Init /\ [][Next]_vars

\* one request at a time, a note being taken of aborted runs
NextRetry ==
    \/ Trigger(1)
    \/ DetermineWindow(1)
    \/ CheckStale(1)
    \/ ClampWindow(1)
    \/ FetchNew(1)
    \/ PersistOne(1)
    \/ LookbackStart(1)
    \/ LoadModelWindow(1)
    \/ Score(1)
    \/ WritePrediction(1)
    \/ StoreFail(1)
    \/ ReturnRetry(1)
    \/ Tick

SpecRetry ==
    Init /\ [][NextRetry]_vars

\* the first request of a worker
TriggerOnce(p) ==
    /\ http_status[p] = 0
    /\ Trigger(p)

\* the state before any request, for a given choice of feeds and tables
Start(feeds, tables) ==
    /\ now = Now0
    /\ feed \in feeds
    /\ summation = "unseen"
    /\ store \in tables
    /\ preds = {}
    /\ pc = [ p \in AllProcs |-> "idle" ]
    /\ NoLocals
    /\ http_status = [ p \in AllProcs |-> 0 ]
    /\ base = store
    /\ order = << >>
    /\ prev = [ valid |-> FALSE, obs |-> {} ]
    /\ retry = NoRetry
    /\ success_instants = {}

\* what the feed serves to two requests made together: records of the
\* channel in the order of their time tags, none listed twice
ConcurrentFeeds ==
    { f \in Feeds :
        \A i \in DOMAIN f :
            /\ f[i].energy = XRAY_LONG
            /\ i < Len(f) => f[i].time_tag <= f[i + 1].time_tag
            /\ \A j \in DOMAIN f : f[i] = f[j] => i = j }

\* the table they find: the row an earlier run left, older than the
\* retrieval bound or exactly as old
ConcurrentTables ==
    { { [ timestamp |-> t, xray_flux |-> 50 ] } :
        t \in { Now0 - 50 * HOUR, Now0 - DATA_RETRIEVAL_HOURS * HOUR } }

InitConcurrent ==
    Start(ConcurrentFeeds, ConcurrentTables)

\* Two requests, each run by its own worker with no lock between them,
\* the feed and the store answering.
NextConcurrent ==
    \/ \E p \in AllProcs :
         \/ TriggerOnce(p)
         \/ DetermineWindow(p)
         \/ CheckStale(p)
         \/ ClampWindow(p)
         \/ FetchNewOk(p)
         \/ PersistOne(p)
         \/ LookbackStart(p)
         \/ LoadModelWindow(p)
         \/ Score(p)
         \/ WritePrediction(p)
         \/ Return(p)
    \/ Tick

SpecConcurrent ==
    InitConcurrent /\ [][NextConcurrent]_vars

\* feeds of three records of the long channel, in ascending time order,
\* all inside the retrieval window and the model window
EndToEndFeeds ==
    { << [ energy |-> XRAY_LONG, time_tag |-> Now0 - 24 * HOUR, flux |-> f1 ],
         [ energy |-> XRAY_LONG, time_tag |-> Now0 - 23 * HOUR, flux |-> f2 ],
         [ energy |-> XRAY_LONG, time_tag |-> Now0 - 22 * HOUR, flux |-> f3 ] >> :
        f1 \in Fluxes, f2 \in Fluxes, f3 \in Fluxes }

\* a fresh deployment, or one row left by an earlier run, a day or more
\* than two days ago
EndToEndTables ==
    { {}, { [ timestamp |-> Now0 - 25 * HOUR, xray_flux |-> 50 ] },
      { [ timestamp |-> Now0 - 50 * HOUR, xray_flux |-> 50 ] } }

InitEndToEnd ==
    Start(EndToEndFeeds, EndToEndTables)

\* one request at a time, on a feed of three new records
SpecEndToEnd ==
    InitEndToEnd /\ [][Next]_vars

\* one stored row and one new record of the feed, both in the model window,
\* or the record alone after a stale row
PredictTables ==
    { { [ timestamp |-> Now0 - 24 * HOUR, xray_flux |-> f ] } : f \in RiskFluxes }
      \cup { { [ timestamp |-> Now0 - 50 * HOUR, xray_flux |-> 50 ] } }

PredictFeeds ==
    { << [ energy |-> XRAY_LONG, time_tag |-> Now0 - 23 * HOUR, flux |-> f ] >> :
        f \in RiskFluxes }

\* three stored rows in the model window whose arithmetic mean with one
\* more row of 5e-5 is 1e-4
MixedTable ==
    { [ timestamp |-> Now0 - 24 * HOUR, xray_flux |-> 5000 ],
      [ timestamp |-> Now0 - 23 * HOUR, xray_flux |-> 10000 ],
      [ timestamp |-> Now0 - 22 * HOUR, xray_flux |-> 20000 ] }

\* four stored rows in the model window of the same flux 1.0001e-4
EqualTable ==
    [ timestamp : { Now0 - 24 * HOUR, Now0 - 23 * HOUR, Now0 - 22 * HOUR,
                    Now0 - 21 * HOUR },
      xray_flux : { 10001 } ]

\* a feed of one new record, later than these rows
LateFeed(f) ==
    << [ energy |-> XRAY_LONG, time_tag |-> Now0 - 20 * HOUR, flux |-> f ] >>

InitPredict ==
    \/ Start(PredictFeeds, PredictTables)
    \/ Start({ LateFeed(5000) }, { MixedTable })
    \/ Start({ LateFeed(10001) }, { EqualTable })

\* one request at a time, on windows whose means straddle the thresholds
SpecPredict ==
    InitPredict /\ [][Next]_vars

\* feed records in which the time tag or the flux is missing
MalformedRecords ==
    { [ energy |-> XRAY_LONG, flux |-> 50 ],
      [ energy |-> XRAY_LONG, time_tag |-> Now0 - 23 * HOUR ],
      [ energy |-> XRAY_LONG, time_tag |-> Now0 - 50 * HOUR ],
      [ energy |-> XRAY_SHORT, flux |-> 50 ] }

\* the record carries the two fields lines 25-27 subscript
WellFormed(record) ==
    { "time_tag", "flux" } \subseteq DOMAIN record

\* feeds of one or two records of which at least one is malformed
MalformedFeeds ==
    { f \in SeqsUpTo(MalformedRecords
                       \cup [ energy : { XRAY_LONG },
                              time_tag : { Now0 - 24 * HOUR, Now0 - 23 * HOUR },
                              flux : { 50 } ], 2) :
        \E i \in DOMAIN f : ~ WellFormed(f[i]) }

InitMalformed ==
    Start(MalformedFeeds, InitTables)

\* one request at a time, on feeds that hold a malformed record
SpecMalformed ==
    InitMalformed /\ [][Next]_vars

(* ======================= properties ======================= *)

\* the order of the three values of risk_level (lines 44-49)
Severity(risk_level) ==
    CASE risk_level = "Low" -> 0
      [] risk_level = "Medium" -> 1
      [] risk_level = "High" -> 2

\* the windows predict is compared on: one or two rows, any of the fluxes
PredictWindows ==
    { w \in SeqsUpTo([ timestamp : { Now0 - 23 * HOUR }, xray_flux : RiskFluxes ], 2) :
        w # << >> }

\* how a run that is over ended: the exception paths, the two early returns
\* (pipeline.py 89-91, 104-106) and the end of the function (line 121)
Outcome(p) ==
    IF exc[p] # "none" THEN "Fatal-Error"
    ELSE IF wrotePred[p] THEN "Success"
    ELSE "Success-NoOp"

\* a request that is inside run_prediction_pipeline or has just left it
InRun(p) ==
    pc[p] # "idle"

\* C1: idempotence.  When a run that ended without an exception follows a
\* run that ended without an exception, on the same feed, the observation
\* table after the second run is the table the first run left: the same
\* rows with the same values, and one row per timestamp.
C1_Idempotent ==
    \A p \in AllProcs :
        (pc[p] = "done" /\ exc[p] = "none" /\ prev.valid)
            => (store = prev.obs /\ UniqueTimestamps(store))

\* C1 witness: the second run has fetched records and upserted them again.
C1_Witness ==
    /\ pc[1] = "done" /\ exc[1] = "none" /\ prev.valid
    /\ wroteObs[1] /\ Len(new_data[1]) = 2
    /\ store = prev.obs

\* the step of request p is one upsert of lines 95-96
IsUpsertStep(p) ==
    pc[p] = "persist" /\ idx'[p] = idx[p] + 1

\* C2: the observation table holds at most one row per timestamp in every
\* reachable state; an upsert on a stored timestamp replaces that row and
\* keeps the size of the table, an upsert on a new timestamp adds one row.
C2_OneRowPerTimestamp ==
    /\ [] UniqueTimestamps(store)
    /\ [][ \A p \in AllProcs :
             IsUpsertStep(p) =>
               LET rec == new_data[p][idx[p]]
                   hit == \E r \in store : r.timestamp = rec.timestamp
               IN  /\ rec \in store'
                   /\ \A r \in store' : r.timestamp = rec.timestamp => r = rec
                   /\ Cardinality(store') =
                        IF hit THEN Cardinality(store)
                        ELSE Cardinality(store) + 1 ]_vars

\* C2 witness: the first upsert of a run replaced a row that held another
\* value, and the table kept its size.
C2_Witness ==
    /\ pc[1] = "persist" /\ idx[1] = 2
    /\ \E r \in base : /\ r.timestamp = new_data[1][1].timestamp
                       /\ r.xray_flux # new_data[1][1].xray_flux
    /\ new_data[1][1] \in store
    /\ Cardinality(store) = Cardinality(base)

\* the clock readings the requests took their starts from, in the order in
\* which the requests read the latest timestamp
Readings ==
    [ i \in DOMAIN order |-> order[i].t ]

\* C3: two runs without mutual exclusion.  Whenever no run is between its
\* first read and its last upsert, the observation table is the table that
\* the same runs, each with the clock reading it took its start from, give
\* when each runs alone, one after the other, in one of the two orders.
C3_Converges ==
    (\A p \in AllProcs :
        pc[p] \in { "idle", "window", "select", "score", "write", "done" })
        => \/ store = RunsInSequence(base, feed, Readings)
           \/ store = RunsInSequence(base, feed,
                  [ i \in DOMAIN order |-> Readings[Len(order) + 1 - i] ])

\* C3 witness: both runs are over, neither has returned, both have written,
\* and they fetched different, overlapping windows of the feed.
C3_Witness ==
    /\ pc[1] = "done" /\ pc[2] = "done"
    /\ wroteObs[1] /\ wroteObs[2]
    /\ start_time[1] # start_time[2]
    /\ new_data[1] # new_data[2]
    /\ \E i \in DOMAIN new_data[1] : \E j \in DOMAIN new_data[2] :
         new_data[1][i].timestamp = new_data[2][j].timestamp
    /\ store # base

\* C4 (as claimed): a run that finds the observation table empty does not
\* fail in DetermineWindow; it goes on to the fetch with the start
\* now - DATA_RETRIEVAL_HOURS, less the buffer.
C4_ColdStartProceeds ==
    \A p \in AllProcs :
        (InRun(p) /\ pc[p] # "determine" /\ base = {}
           /\ ~ (exc[p] = "StoreError" /\ exc_at[p] = "determine"))
            => /\ exc_at[p] # "determine"
               /\ start_time[p] = now - DATA_RETRIEVAL_HOURS * HOUR - BUFFER_HOURS * HOUR

\* the two clock readings of the run of request p: seen is the reading of
\* line 81, t the reading its start was taken from
ReadingsOf(p) ==
    order[CHOOSE i \in DOMAIN order :
              /\ order[i].proc = p
              /\ \A j \in DOMAIN order : order[j].proc = p => j <= i]

\* C5: window clamping.  With a latest observation, the start passed to
\* the feed client is now - DATA_RETRIEVAL_HOURS when the latest timestamp
\* is older than that bound and the latest timestamp otherwise, less
\* BUFFER_HOURS; it is never earlier than
\* now - (DATA_RETRIEVAL_HOURS + BUFFER_HOURS).  now is the clock reading
\* the run took its start from; the latest timestamp is judged against the
\* bound of that reading, not against the reading of line 81.
C5_WindowClamped ==
    \A p \in AllProcs :
        (pc[p] = "fetch" /\ latest_record[p] # << >>) =>
            LET latest == latest_record[p][1].timestamp
                bound == ReadingsOf(p).t - DATA_RETRIEVAL_HOURS * HOUR
            IN  /\ latest < bound => start_time[p] + BUFFER_HOURS * HOUR = bound
                /\ latest >= bound => start_time[p] + BUFFER_HOURS * HOUR = latest
                /\ start_time[p] >=
                     ReadingsOf(p).t - (DATA_RETRIEVAL_HOURS + BUFFER_HOURS) * HOUR

\* C5 witness: the latest observation was older than the bound at line 81,
\* the clock moved on before line 82 read it, and the fetch is about to be
\* made from the bound of the second reading.
C5_Witness ==
    /\ pc[1] = "fetch" /\ latest_record[1] # << >>
    /\ ReadingsOf(1).seen < ReadingsOf(1).t
    /\ latest_record[1][1].timestamp <
           ReadingsOf(1).seen - DATA_RETRIEVAL_HOURS * HOUR
    /\ start_time[1] =
           ReadingsOf(1).t - (DATA_RETRIEVAL_HOURS + BUFFER_HOURS) * HOUR

\* C6: empty-feed no-op.  A run whose fetch returned an empty list is over
\* without an exception and has issued no upsert to either table; the
\* observation table is as the run found it.
C6_EmptyFeedNoOp ==
    \A p \in AllProcs :
        (fetched[p] /\ new_data[p] = << >>)
            => /\ pc[p] = "done" /\ exc[p] = "none"
               /\ ~ wroteObs[p] /\ ~ wrotePred[p] /\ ~ queried[p]
               /\ prediction_result[p] = << >>
               /\ store = base

\* C6 witness: the feed answered with records, none at or after the start.
C6_Witness ==
    /\ fetched[1] /\ new_data[1] = << >> /\ pc[1] = "done"
    /\ response[1] = "ok" /\ FilterEnergy(feed) # << >>

\* a float that is not negative lies in [0, 1]
InUnitInterval(q) ==
    ~ FGreater(q, FromInt(1))

\* C7 (as claimed): the probability returned by predict, and so that of
\* every row of the prediction table, lies in [0, 1].
C7_ProbabilityBound ==
    /\ \A r \in preds : InUnitInterval(r.m_class_probability)
    /\ \A p \in AllProcs :
         prediction_result[p] # << >> =>
             InUnitInterval(prediction_result[p][1].m_class_probability)

\* C8: a failed feed request (network error, non-2xx status, body that is
\* no JSON) ends the run with an exception, fetch_solar_data returns no
\* result, and the run has written to neither table; an answered request
\* whose filtered result is empty raises nothing.
C8_FeedFailureFatal ==
    \A p \in AllProcs :
        /\ response[p] \notin { "none", "ok" }
             => /\ pc[p] = "done" /\ exc[p] # "none" /\ exc_at[p] = "fetch"
                /\ ~ fetched[p]
                /\ ~ wroteObs[p] /\ ~ wrotePred[p]
                /\ store = base
        /\ (response[p] = "ok" /\ fetched[p] /\ new_data[p] = << >>)
             => exc[p] = "none"

\* C8 witness: the feed answered with an error status and the run is over.
C8_Witness ==
    /\ response[1] = "http_error" /\ pc[1] = "done"
    /\ exc[1] = "UnboundLocalError" /\ feed # << >>

\* C9: a store failure while upserting the fetched observations ends the run
\* there: no model window is queried, predict is not called, nothing is
\* written to the prediction table, and the exception leaves the run.
C9_PersistFailureAborts ==
    \A p \in AllProcs :
        (exc[p] = "StoreError" /\ exc_at[p] = "persist")
            => /\ pc[p] = "done"
               /\ ~ queried[p] /\ prediction_result[p] = << >>
               /\ ~ wrotePred[p]
               /\ HttpStatus(exc[p]) = 500

\* C9 witness: the second upsert of a batch failed after the first was made.
C9_Witness ==
    /\ exc[1] = "StoreError" /\ exc_at[1] = "persist"
    /\ wroteObs[1] /\ idx[1] = 2 /\ Len(new_data[1]) = 2

\* C10: empty model window.  A run whose query of line 101 returned no row
\* is over without an exception, predict was not called, nothing was
\* written to the prediction table, and what the run upserted is stored.
C10_EmptyWindowNoOp ==
    \A p \in AllProcs :
        (queried[p] /\ model_input_data[p] = << >>)
            => /\ pc[p] = "done" /\ exc[p] = "none"
               /\ prediction_result[p] = << >> /\ ~ wrotePred[p]
               /\ wroteObs[p]
               /\ store = UpsertAll(base, new_data[p])
               /\ \A i \in DOMAIN new_data[p] :
                    \E r \in store : r.timestamp = new_data[p][i].timestamp

\* C10 witness: the run stored new observations, all older than the window.
C10_Witness ==
    /\ queried[1] /\ model_input_data[1] = << >> /\ pc[1] = "done"
    /\ wroteObs[1] /\ store # base

\* C11 (as claimed): retry safety.  After a run was aborted, the next run
\* on the same feed and at the same clock reading, when it completes,
\* leaves the observation table that one uninterrupted run would have
\* produced from the table the aborted run started on.
C11_RetrySafe ==
    \A p \in AllProcs :
        (pc[p] = "done" /\ exc[p] = "none" /\ retry.armed)
            => store = retry.want

\* C12: every run that reaches the end writes one prediction row whose key
\* is the clock reading of its computation; runs that stop early or abort
\* write none; the table holds one row per distinct instant of such runs,
\* so a second run at the same instant overwrites the row of the first.
C12_OnePredictionPerSuccess ==
    /\ UniqueTimestamps(preds)
    /\ { r.timestamp : r \in preds } = success_instants
    /\ Cardinality(preds) = Cardinality(success_instants)
    /\ \A p \in AllProcs :
         /\ wrotePred[p] =>
               /\ pc[p] = "done" /\ exc[p] = "none"
               /\ prediction_result[p][1] \in preds
               /\ prediction_result[p][1].timestamp = now
         /\ (pc[p] = "done" /\ ~ wrotePred[p]) =>
               \/ exc[p] # "none"
               \/ NoNewData(new_data[p])
               \/ NoModelInput(model_input_data[p])

\* C12 witness: a run has just written its row, the row of a run at an
\* earlier instant is kept, and the table holds these two rows.
C12_Witness ==
    /\ pc[1] = "done" /\ wrotePred[1]
    /\ Cardinality(preds) = 2
    /\ success_instants = { now - 1, now }

\* C13 (as claimed): end to end.  With both tables empty and a feed of
\* three in-window records of the channel, a run in which neither the feed
\* nor the store fails ends without an exception, leaves exactly these
\* three observations and leaves exactly one prediction row.
C13_EndToEnd ==
    \A p \in AllProcs :
        (pc[p] = "done" /\ base = {} /\ success_instants = {}
           /\ exc[p] # "StoreError" /\ response[p] \in { "none", "ok" })
            => /\ exc[p] = "none"
               /\ store = { [ timestamp |-> feed[i].time_tag,
                              xray_flux |-> feed[i].flux ] : i \in 1 .. 3 }
               /\ Cardinality(store) = 3
               /\ Cardinality(preds) = 1

\* C14: the trigger endpoint answers 202 exactly when the run ended as
\* Success or Success-NoOp, and answers with a server error (5xx) when the
\* run ended as Fatal-Error.
C14_AcceptedIffCompleted ==
    [][ \A p \in AllProcs :
          (pc[p] = "done" /\ pc'[p] = "idle") =>
            /\ http_status'[p] = 202
                  <=> Outcome(p) \in { "Success", "Success-NoOp" }
            /\ Outcome(p) = "Fatal-Error"
                  => (http_status'[p] >= 500 /\ http_status'[p] < 600) ]_vars

\* C14 witness: a request whose run raised has been answered 500, after a
\* request whose run wrote a prediction.
C14_Witness ==
    /\ pc[1] = "idle" /\ http_status[1] = 500
    /\ ~ prev.valid
    /\ success_instants # {}

\* the sum of the fluxes of a window, in units of 1e-8, without rounding
RECURSIVE TotalUnits(_)
TotalUnits(data) ==
    IF data = << >> THEN 0
    ELSE data[1].xray_flux + TotalUnits(Tail(data))

C16_StatedInputs ==
    \A p \in AllProcs :
        prediction_result[p] # << >> =>
            LET s == TotalUnits(model_input_data[p])
                n == Len(model_input_data[p])
                risk == prediction_result[p][1].risk_level
            IN  /\ s = 5000 * n => risk = "High"
                /\ s = 50 * n => risk = "Medium"
                /\ s = 5 * n => risk = "Low"

\* C16 (amended): windows whose mean flux is 5e-5, 5e-7 and 5e-8 are
\* classified Medium, Low and Low: 5e-5 is not above 1e-4 and 5e-7 is not
\* above 1e-6.
C16_StatedInputsAsCoded ==
    \A p \in AllProcs :
        prediction_result[p] # << >> =>
            LET s == TotalUnits(model_input_data[p])
                n == Len(model_input_data[p])
                risk == prediction_result[p][1].risk_level
            IN  /\ s = 5000 * n => risk = "Medium"
                /\ s = 50 * n => risk = "Low"
                /\ s = 5 * n => risk = "Low"

\* C16 witness: a run scored a window of two rows of flux 5e-5 and wrote
\* the prediction, whose risk_level is Medium.
C16_Witness ==
    /\ wrotePred[1]
    /\ Len(model_input_data[1]) = 2
    /\ \A i \in 1 .. 2 : model_input_data[1][i].xray_flux = 5000
    /\ prediction_result[1][1].risk_level = "Medium"
    /\ prediction_result[1][1] \in preds

\* C17 (as claimed): order independence of scoring.  For the window a run
\* scored, every permutation of the window gives the same probability and
\* the same risk_level, and the ratio is taken against the row with the
\* greatest timestamp, in whatever order the range query returned the rows.
C17_OrderIndependent ==
    \A p \in AllProcs :
        prediction_result[p] # << >> =>
            LET d == model_input_data[p]
                rows == { d[i] : i \in DOMAIN d }
                res == prediction_result[p][1]
                newest == CHOOSE r \in rows :
                            \A q \in rows : q.timestamp <= r.timestamp
            IN  \A how \in Interpreters :
                  /\ \A d2 \in Orderings(rows) :
                       /\ Predict(how, d2, now).m_class_probability
                            = res.m_class_probability
                       /\ Predict(how, d2, now).risk_level = res.risk_level
                  /\ res.m_class_probability =
                       IF newest.xray_flux > 0
                       THEN FDiv(FluxPrediction(how, d),
                                 Double(newest.xray_flux))
                       ELSE Zero

\* C18 (as claimed): malformed feed records are discarded.  When the feed
\* answered 200 with a body in which a record lacks its time tag or its
\* flux, the fetch does not raise and returns the well-formed records that
\* pass the two filters.
C18_MalformedDiscarded ==
    \A p \in AllProcs :
        (response[p] = "ok" /\ \E i \in DOMAIN feed : ~ WellFormed(feed[i]))
            => /\ ~ (exc[p] # "none" /\ exc_at[p] = "fetch")
               /\ fetched[p]
               /\ new_data[p] =
                    FetchSolarData(SelectSeq(feed, WellFormed), start_time[p])

\* C19: feed filtering.  What a fetch returned is exactly the records of the
\* response tagged '0.1-0.8nm' whose time tag is >= start_time, each the
\* pair {timestamp, flux} of its record and as many times as it occurs;
\* and every row the run has added to or changed in the observation table
\* is such a record.
C19_FeedFiltering ==
    \A p \in AllProcs :
        fetched[p] =>
            LET kept == { i \in DOMAIN feed :
                            /\ feed[i].energy = "0.1-0.8nm"
                            /\ feed[i].time_tag >= start_time[p] }
                obs(i) == [ timestamp |-> feed[i].time_tag,
                            xray_flux |-> feed[i].flux ]
                times(row) == Cardinality({ j \in DOMAIN new_data[p] :
                                              new_data[p][j] = row })
            IN  /\ Len(new_data[p]) = Cardinality(kept)
                /\ \A i \in kept :
                     times(obs(i)) = Cardinality({ k \in kept : obs(k) = obs(i) })
                /\ \A j \in DOMAIN new_data[p] :
                     \E i \in kept : new_data[p][j] = obs(i)
                /\ \A row \in store \ base :
                     \E i \in kept : row = obs(i)

\* C19 witness: the response held a record of the other channel and a
\* record of the channel inside the window; the fetch returned the second
\* alone and the run stored it.
C19_Witness ==
    /\ pc[1] = "done" /\ fetched[1] /\ wroteObs[1]
    /\ Len(feed) = 2
    /\ feed[1].energy = XRAY_SHORT
    /\ new_data[1] = << [ timestamp |-> feed[2].time_tag,
                          xray_flux |-> feed[2].flux ] >>
    /\ new_data[1][1] \in store \ base

\* C20 (as claimed): write/read compatibility.  After a run that wrote its
\* prediction, every prediction row passes the PredictionRecord schema,
\* every observation row the run wrote passes the ObservationRecord schema,
\* and both latest endpoints answer with a record.
C20_ReadCompatible ==
    \A p \in AllProcs :
        (pc[p] = "done" /\ Outcome(p) = "Success") =>
            /\ \A row \in preds : ValidPredictionRecord(row)
            /\ \A row \in store \ base : ValidObservationRecord(row)
            /\ GetLatestPrediction(preds) = 200
            /\ GetLatestObservation(store) = 200
====
